---------------------------- MODULE Spec2Model ----------------------------
(***************************************************************************)
(* burnbench persistence layer: src/burnbench/src/persistence/base.rs      *)
(*                                                                         *)
(*   - the statistics of a run (BenchmarkComputations::new),               *)
(*   - the flat codec of a BenchmarkRecord (impl Serialize, visit_map),    *)
(*   - save_records and upload_record, run by concurrent invocations that  *)
(*     share the cache directory and its index file.                       *)
(*                                                                         *)
(* A std::time::Duration is the pair [secs, nanos] with nanos below        *)
(* NANOS_PER_SEC, as in the standard library.                              *)
(***************************************************************************)
EXTENDS Integers, Sequences, FiniteSets, TLC

\* ------------------------------------------------------------------ bounds
\* Records handed to the invocations of save_records, all together.
MaxRecords == 2
\* Longest sample sequence of a run.
MaxSamples == 2

\* ------------------------------------------------------ std::time::Duration
NANOS_PER_SEC == 1000000000
NANOS_PER_MICRO == 1000
MICROS_PER_SEC == 1000000

Dur(s, n) == [secs |-> s, nanos |-> n]
ZeroDur == Dur(0, 0)

\* as_millis in the place of as_micros
as_micros_Millis(d) == d.secs * 1000 + (d.nanos \div 1000000)

\* the microseconds rounded to the nearest in the place of truncated
as_micros_Rounded(d) ==
  d.secs * MICROS_PER_SEC + ((d.nanos + 500) \div NANOS_PER_MICRO)

\* Duration::as_micros
as_micros(d) == d.secs * MICROS_PER_SEC + (d.nanos \div NANOS_PER_MICRO)

\* from_millis in the place of from_micros
from_micros_Millis(v) == Dur(v \div 1000, (v % 1000) * 1000000)

\* Duration::from_micros
from_micros(v) ==
  Dur(v \div MICROS_PER_SEC, (v % MICROS_PER_SEC) * NANOS_PER_MICRO)

\* Duration::new: nanoseconds of a second or more carry into the seconds
DurNew(s, n) == Dur(s + (n \div NANOS_PER_SEC), n % NANOS_PER_SEC)

\* Ord for Duration: by secs, then by nanos
DurLeq(a, b) == a.secs < b.secs \/ (a.secs = b.secs /\ a.nanos <= b.nanos)

\* Add for Duration (carry of the nanoseconds into the seconds)
DurAdd(a, b) ==
  LET n == a.nanos + b.nanos
  IN  IF n >= NANOS_PER_SEC THEN Dur(a.secs + b.secs + 1, n - NANOS_PER_SEC)
      ELSE Dur(a.secs + b.secs, n)

\* |a - b|, the magnitude of as_secs_f64(a) - as_secs_f64(b)
DurAbsDiff(a, b) ==
  LET hi == IF DurLeq(a, b) THEN b ELSE a
      lo == IF DurLeq(a, b) THEN a ELSE b
  IN  IF hi.nanos >= lo.nanos THEN Dur(hi.secs - lo.secs, hi.nanos - lo.nanos)
      ELSE Dur(hi.secs - lo.secs - 1, hi.nanos + NANOS_PER_SEC - lo.nanos)

\* Sum<Duration> of an iterator
RECURSIVE DurSum(_)
DurSum(ds) == IF ds = <<>> THEN ZeroDur ELSE DurAdd(Head(ds), DurSum(Tail(ds)))

\* Div<u32> for Duration: the nanosecond total divided by n, truncated.
\* (extra * NANOS_PER_SEC + rest) / n is computed from the quotient and the
\* remainder of NANOS_PER_SEC by n so that no product leaves 32 bits.
DurDiv(d, n) ==
  LET extra == d.secs % n
      rest  == d.nanos % n
      q     == NANOS_PER_SEC \div n
      r     == NANOS_PER_SEC % n
  IN  Dur(d.secs \div n, (d.nanos \div n) + extra * q + ((extra * r + rest) \div n))

\* a * b = q * NANOS_PER_SEC + r with r < NANOS_PER_SEC, for a and b below
\* NANOS_PER_SEC: the product by limbs of three decimal digits, so that no
\* intermediate value leaves 32 bits.
MulNs(a, b) ==
  LET a0 == a % 1000
      a1 == (a \div 1000) % 1000
      a2 == a \div 1000000
      b0 == b % 1000
      b1 == (b \div 1000) % 1000
      b2 == b \div 1000000
      p0 == a0 * b0
      p1 == a0 * b1 + a1 * b0
      p2 == a0 * b2 + a1 * b1 + a2 * b0
      p3 == a1 * b2 + a2 * b1
      p4 == a2 * b2
      c1 == p1 * 1000
      t  == p0 + (p2 % 1000) * 1000000 + (c1 % NANOS_PER_SEC)
  IN  [q |-> p3 + p4 * 1000 + (p2 \div 1000) + (c1 \div NANOS_PER_SEC)
             + (t \div NANOS_PER_SEC),
       r |-> t % NANOS_PER_SEC]

\* Duration::from_secs_f64(tmp * tmp) for tmp of magnitude d: the square of
\* secs + nanos/1e9 seconds, rounded to the nearest nanosecond.
DurSquare(d) ==
  LET cross == MulNs(d.nanos, 2 * d.secs)
      low   == MulNs(d.nanos, d.nanos)
      lowns == low.q + (IF 2 * low.r >= NANOS_PER_SEC THEN 1 ELSE 0)
  IN  DurAdd(Dur(d.secs * d.secs + cross.q, cross.r), Dur(0, lowns))

\* ------------------------------------------------------- BenchmarkDurations
\* sorted.sort(): insertion into an ascending sequence
RECURSIVE Insert(_, _)
Insert(d, s) ==
  IF s = <<>> THEN <<d>>
  ELSE IF DurLeq(d, Head(s)) THEN <<d>> \o s
       ELSE <<Head(s)>> \o Insert(d, Tail(s))

RECURSIVE Sort(_)
Sort(ds) == IF ds = <<>> THEN <<>> ELSE Insert(Head(ds), Sort(Tail(ds)))

\* the lower of the two middle elements for an even number of samples
min_max_median_durations_LowerMiddle(ds) ==
  LET sorted == Sort(ds)
  IN  [min    |-> sorted[1],
       max    |-> sorted[Len(sorted)],
       median |-> sorted[((Len(sorted) - 1) \div 2) + 1]]

\* min_max_median_durations (durations non-empty)
min_max_median_durations(ds) ==
  LET sorted == Sort(ds)
  IN  [min    |-> sorted[1],
       max    |-> sorted[Len(sorted)],
       median |-> sorted[(Len(sorted) \div 2) + 1]]

\* the sum divided by the count and rounded up
mean_duration_RoundUp(ds) ==
  DurDiv(DurAdd(DurSum(ds), Dur(0, Len(ds) - 1)), Len(ds))

\* mean_duration (durations non-empty)
mean_duration(ds) == DurDiv(DurSum(ds), Len(ds))

\* the sample variance: divisor n - 1 (n for a single sample)
variance_duration_Sample(ds, mean) ==
  DurDiv(DurSum([k \in 1..Len(ds) |-> DurSquare(DurAbsDiff(ds[k], mean))]),
         IF Len(ds) > 1 THEN Len(ds) - 1 ELSE 1)

\* variance_duration (durations non-empty)
variance_duration(ds, mean) ==
  DurDiv(DurSum([k \in 1..Len(ds) |-> DurSquare(DurAbsDiff(ds[k], mean))]),
         Len(ds))

\* the tuple (min, max, median) destructured as (min, median, max)
BenchmarkComputations_new_Swapped(ds) ==
  LET mean == mean_duration(ds)
      mmm  == min_max_median_durations(ds)
  IN  [mean     |-> mean,
       median   |-> mmm.max,
       min      |-> mmm.min,
       max      |-> mmm.median,
       variance |-> variance_duration(ds, mean)]

\* BenchmarkComputations::new (durations non-empty)
BenchmarkComputations_new(ds) ==
  LET mean == mean_duration(ds)
      mmm  == min_max_median_durations(ds)
  IN  [mean     |-> mean,
       median   |-> mmm.median,
       min      |-> mmm.min,
       max      |-> mmm.max,
       variance |-> variance_duration(ds, mean)]

\* ------------------------------------------------- calls of the statistics
\* A call ends by returning a value or by a panic; `durations` is
\* self.durations after the call (every method takes &self).
NoStats ==
  [mean |-> ZeroDur, median |-> ZeroDur, min |-> ZeroDur, max |-> ZeroDur,
   variance |-> ZeroDur]

Returned(out, ds) == [kind |-> "ok", out |-> out, durations |-> ds]
Unwound(ds) == [kind |-> "panic", out |-> NoStats, durations |-> ds]

\* min_max_median_durations: sorted.first().unwrap() panics on an empty Vec
call_min_max_median_durations(ds) ==
  IF ds = <<>> THEN Unwound(ds)
  ELSE LET mmm == min_max_median_durations(ds)
       IN  Returned([NoStats EXCEPT !.min = mmm.min, !.max = mmm.max,
                                    !.median = mmm.median], ds)

\* a zero mean returned for no sample in the place of the division by zero
call_mean_duration_ZeroOnEmpty(ds) ==
  IF Len(ds) = 0 THEN Returned(NoStats, ds)
  ELSE Returned([NoStats EXCEPT !.mean = mean_duration(ds)], ds)

\* mean_duration: Duration / 0u32 panics ("divide by zero error ..")
call_mean_duration(ds) ==
  IF Len(ds) = 0 THEN Unwound(ds)
  ELSE Returned([NoStats EXCEPT !.mean = mean_duration(ds)], ds)

\* variance_duration: the sum of no term is zero, and Duration / 0u32 panics
call_variance_duration(ds, mean) ==
  IF Len(ds) = 0 THEN Unwound(ds)
  ELSE Returned([NoStats EXCEPT !.variance = variance_duration(ds, mean)], ds)

\* BenchmarkComputations::new: mean_duration, min_max_median_durations and
\* variance_duration in that order; the first panic ends the call
call_new(ds) ==
  IF call_mean_duration(ds).kind = "panic" THEN Unwound(ds)
  ELSE IF call_min_max_median_durations(ds).kind = "panic" THEN Unwound(ds)
  ELSE IF call_variance_duration(ds, call_mean_duration(ds).out.mean).kind = "panic"
       THEN Unwound(ds)
  ELSE Returned(BenchmarkComputations_new(ds), ds)

\* ---------------------------------------------------------- Result Model
\* TimingMethod; #[default] is System
TimingMethod == {"System", "Device"}

\* Option<String>
None == [some |-> FALSE, str |-> ""]
Some(s) == [some |-> TRUE, str |-> s]

\* BenchmarkSystemInfo::default(): an opaque inventory
DefaultInfo == [cpus |-> <<>>, gpus |-> <<>>]

\* BenchmarkRecord::default()
DefaultRecord ==
  [backend      |-> "",
   device       |-> "",
   feature      |-> "",
   burn_version |-> "",
   system_info  |-> DefaultInfo,
   results      |->
     [raw       |-> [timing_method |-> "System", durations |-> <<>>],
      computed  |-> [mean |-> ZeroDur, median |-> ZeroDur, variance |-> ZeroDur,
                     min |-> ZeroDur, max |-> ZeroDur],
      git_hash  |-> "",
      name      |-> "",
      options   |-> None,
      shapes    |-> <<>>,
      timestamp |-> 0]]

\* ------------------------------------------------------ Flat-Schema Codec
\* A JSON value: its shape and the payload of that shape.
JNull == [shape |-> "null", num |-> 0, str |-> "", durs |-> <<>>,
          dims |-> <<>>, info |-> DefaultInfo]
JNum(n)    == [JNull EXCEPT !.shape = "num", !.num = n]
JStr(s)    == [JNull EXCEPT !.shape = "str", !.str = s]
JDurs(ds)  == [JNull EXCEPT !.shape = "durs", !.durs = ds]
JDims(ss)  == [JNull EXCEPT !.shape = "dims", !.dims = ss]
JInfo(si)  == [JNull EXCEPT !.shape = "info", !.info = si]
JOpt(o)    == IF o.some THEN JStr(o.str) ELSE JNull

Entry(k, v) == [key |-> k, val |-> v]

\* impl Serialize for BenchmarkRecord: the entries in the order written
serialize(br) ==
  << Entry("backend", JStr(br.backend)),
     Entry("device", JStr(br.device)),
     Entry("feature", JStr(br.feature)),
     Entry("gitHash", JStr(br.results.git_hash)),
     Entry("burnVersion", JStr(br.burn_version)),
     Entry("max", JNum(as_micros(br.results.computed.max))),
     Entry("mean", JNum(as_micros(br.results.computed.mean))),
     Entry("median", JNum(as_micros(br.results.computed.median))),
     Entry("min", JNum(as_micros(br.results.computed.min))),
     Entry("name", JStr(br.results.name)),
     Entry("numSamples", JNum(Len(br.results.raw.durations))),
     Entry("options", JOpt(br.results.options)),
     Entry("rawDurations", JDurs(br.results.raw.durations)),
     Entry("systemInfo", JInfo(br.system_info)),
     Entry("shapes", JDims(br.results.shapes)),
     Entry("timestamp", JNum(br.results.timestamp)),
     Entry("variance", JNum(as_micros(br.results.computed.variance))) >>

\* map.next_value::<T>() succeeds on a value of the shape of T
IsString(v)    == v.shape = "str"
IsUnsigned(v)  == v.shape = "num" /\ v.num >= 0
IsOptString(v) == v.shape \in {"null", "str"}
IsDurations(v) == v.shape = "durs"
IsDims(v)      == v.shape = "dims"
IsInfo(v)      == v.shape = "info"

Ok(br)   == [kind |-> "ok", br |-> br]
Err      == [kind |-> "err", br |-> DefaultRecord]
Panicked == [kind |-> "panic", br |-> DefaultRecord]

\* `_ => panic!("Unexpected Key: {}", key)`
UnexpectedKey(key) == Panicked

\* numSamples checked against the durations decoded so far
num_samples_arm_Validate(br, v) ==
  IF IsUnsigned(v) /\ v.num = Len(br.results.raw.durations) THEN Ok(br) ELSE Err

\* "numSamples" => _ = map.next_value::<usize>()?  (parsed and discarded)
num_samples_arm(br, v) == IF IsUnsigned(v) THEN Ok(br) ELSE Err

\* One arm of the match of visit_map.
visit_entry(br, e) ==
  LET v == e.val
      c == br.results.computed
  IN  CASE e.key = "backend" ->
             IF IsString(v) THEN Ok([br EXCEPT !.backend = v.str]) ELSE Err
        [] e.key = "device" ->
             IF IsString(v) THEN Ok([br EXCEPT !.device = v.str]) ELSE Err
        [] e.key = "feature" ->
             IF IsString(v) THEN Ok([br EXCEPT !.feature = v.str]) ELSE Err
        [] e.key = "burnVersion" ->
             IF IsString(v) THEN Ok([br EXCEPT !.burn_version = v.str]) ELSE Err
        [] e.key = "gitHash" ->
             IF IsString(v) THEN Ok([br EXCEPT !.results.git_hash = v.str])
             ELSE Err
        [] e.key = "name" ->
             IF IsString(v) THEN Ok([br EXCEPT !.results.name = v.str]) ELSE Err
        [] e.key = "max" ->
             IF IsUnsigned(v)
             THEN Ok([br EXCEPT !.results.computed.max = from_micros(v.num)])
             ELSE Err
        [] e.key = "mean" ->
             IF IsUnsigned(v)
             THEN Ok([br EXCEPT !.results.computed.mean = from_micros(v.num)])
             ELSE Err
        [] e.key = "median" ->
             IF IsUnsigned(v)
             THEN Ok([br EXCEPT !.results.computed.median = from_micros(v.num)])
             ELSE Err
        [] e.key = "min" ->
             IF IsUnsigned(v)
             THEN Ok([br EXCEPT !.results.computed.min = from_micros(v.num)])
             ELSE Err
        [] e.key = "numSamples" -> num_samples_arm(br, v)
        [] e.key = "options" ->
             IF IsOptString(v)
             THEN Ok([br EXCEPT !.results.options =
                        IF v.shape = "null" THEN None ELSE Some(v.str)])
             ELSE Err
        [] e.key = "rawDurations" ->
             IF IsDurations(v)
             THEN Ok([br EXCEPT !.results.raw.durations =
                        [k \in 1..Len(v.durs) |->
                           DurNew(v.durs[k].secs, v.durs[k].nanos)]])
             ELSE Err
        [] e.key = "shapes" ->
             IF IsDims(v) THEN Ok([br EXCEPT !.results.shapes = v.dims]) ELSE Err
        [] e.key = "systemInfo" ->
             IF IsInfo(v) THEN Ok([br EXCEPT !.system_info = v.info]) ELSE Err
        [] e.key = "timestamp" ->
             IF IsUnsigned(v) THEN Ok([br EXCEPT !.results.timestamp = v.num])
             ELSE Err
        [] e.key = "variance" ->
             IF IsUnsigned(v)
             THEN Ok([br EXCEPT !.results.computed.variance = from_micros(v.num)])
             ELSE Err
        [] OTHER -> UnexpectedKey(e.key)

\* The `while let Some(key) = map.next_key()` loop from entry k on.
RECURSIVE visit_from(_, _, _)
visit_from(m, k, br) ==
  IF k > Len(m) THEN Ok(br)
  ELSE LET step == visit_entry(br, m[k])
       IN  IF step.kind = "ok" THEN visit_from(m, k + 1, step.br) ELSE step

\* a mapping without "burnVersion" is refused as a derived decoder would
visit_map_RequireVersion(m) ==
  IF \A k \in 1..Len(m) : m[k].key # "burnVersion" THEN Err
  ELSE visit_from(m, 1, DefaultRecord)

\* BenchmarkRecordVisitor::visit_map
visit_map(m) == visit_from(m, 1, DefaultRecord)

\* ------------------------------------------------------------ the inputs
\* Samples of a run: sub-microsecond, microsecond and second scale.
SamplePool == {Dur(0, 1500), Dur(0, 8858583), Dur(1, 999999999), Dur(10, 0)}

RECURSIVE SeqsUpTo(_, _)
SeqsUpTo(S, n) ==
  IF n = 0 THEN {<<>>}
  ELSE LET shorter == SeqsUpTo(S, n - 1)
       IN  shorter \cup {Append(q, x) : q \in {t \in shorter : Len(t) = n - 1},
                                         x \in S}

SampleSeqs == SeqsUpTo(SamplePool, MaxSamples) \ {<<>>}

\* BenchmarkResult as the runner builds it: computed is derived from raw.
MkRecord(backend, name, timestamp, method, ds, options, shapes, info) ==
  [backend      |-> backend,
   device       |-> "Cuda(0)",
   feature      |-> "wgpu-fusion",
   burn_version |-> "0.17.0",
   system_info  |-> info,
   results      |->
     [raw       |-> [timing_method |-> method, durations |-> ds],
      computed  |-> BenchmarkComputations_new(ds),
      git_hash  |-> "02d37011",
      name      |-> name,
      options   |-> options,
      shapes    |-> shapes,
      timestamp |-> timestamp]]

Info1 == [cpus |-> <<"cpu0">>, gpus |-> <<"gpu0">>]

\* The records the codec is run on.
CodecRecords ==
  {MkRecord("candle", "unary", 1710208069, method, ds, options, shapes, info) :
     method \in TimingMethod, ds \in SampleSeqs, options \in {None, Some("o")},
     shapes \in {<<>>, <<<<32, 512, 1024>>>>}, info \in {DefaultInfo, Info1}}

\* The records handed to save_records: RecA and RecB share name and
\* timestamp and differ in content, RecC has a name of its own.
RecA == MkRecord("wgpu", "unary", 1, "System", <<Dur(0, 1500)>>, None, <<>>,
                 DefaultInfo)
RecB == MkRecord("candle", "unary", 1, "Device", <<Dur(10, 0)>>, None, <<>>,
                 DefaultInfo)
RecC == MkRecord("wgpu", "matmul", 2, "System", <<Dur(0, 1500)>>, None, <<>>,
                 DefaultInfo)
SavedRecords == {RecA, RecB, RecC}

\* ------------------------------------------------------------- the state
VARIABLES
  dirExists,    \* cache_dir.exists()
  files,        \* the record files of the cache directory: path -> content
  indexExists,  \* benchmark_results.txt exists
  index,        \* the lines of benchmark_results.txt
  inv,          \* per invocation of save_records: records, url, token
  pc,           \* per invocation: the statement it is at, or how it ended
  cur,          \* per invocation: the record of the for loop (1-based)
  cause,        \* per invocation: the call that failed, "" if none
  log,          \* per invocation: the effects it has had, in order
  codec,        \* a caller of the codec: its input, the calls made, the result
  stats         \* a caller of the statistics: the samples, the call, the result

vars ==
  <<dirExists, files, indexExists, index, inv, pc, cur, cause, log, codec,
    stats>>
fsvars == <<dirExists, files, indexExists, index>>

\* Two invocations of save_records, one after the other or overlapping.
Procs == {"p1", "p2"}

Invocations ==
  [records : SeqsUpTo(SavedRecords, MaxRecords),
   url     : {None, Some("http://localhost:8000/")},
   token   : {None, Some("t0k3n")}]

\* format!("bench_{}_{}.json", name, timestamp) joined to cache_dir
file_path(record) ==
  [name |-> record.results.name, timestamp |-> record.results.timestamp]

Record(p) == inv[p].records[cur[p]]

Event(op, i, outcome) == [op |-> op, i |-> i, outcome |-> outcome]

Ended(p) == pc[p] \in {"ok", "err", "panic"}

\* The end of one iteration of `for record in records`.
NextRecord(p) ==
  IF cur[p] < Len(inv[p].records)
  THEN /\ cur' = [cur EXCEPT ![p] = cur[p] + 1]
       /\ pc' = [pc EXCEPT ![p] = "create"]
  ELSE /\ cur' = cur
       /\ pc' = [pc EXCEPT ![p] = "ok"]

\* A call that failed: `?` returns Err, expect/unwrap panic.
Fail(p, how, what) ==
  /\ pc' = [pc EXCEPT ![p] = how]
  /\ cause' = [cause EXCEPT ![p] = what]

\* if !cache_dir.exists() { fs::create_dir_all(&cache_dir)?; }
CreateDir(p) ==
  /\ pc[p] = "start"
  /\ \/ /\ dirExists' = TRUE
        /\ IF inv[p].records = <<>>
           THEN pc' = [pc EXCEPT ![p] = "ok"]
           ELSE pc' = [pc EXCEPT ![p] = "create"]
        /\ UNCHANGED cause
     \/ /\ ~dirExists
        /\ Fail(p, "err", "create_dir_all")
        /\ UNCHANGED dirExists
  /\ UNCHANGED <<files, indexExists, index, inv, cur, log, codec, stats>>

\* File::create whose failure is ignored: the loop goes on to the index
FileCreate_Swallow(p) ==
  /\ pc[p] = "create"
  /\ \/ /\ dirExists
        /\ files' = (file_path(Record(p)) :> <<>>) @@ files
        /\ log' = [log EXCEPT ![p] = Append(@, Event("create", cur[p], "ok"))]
        /\ pc' = [pc EXCEPT ![p] = "write"]
        /\ UNCHANGED cause
     \/ /\ pc' = [pc EXCEPT ![p] = "open"]
        /\ cause' = [cause EXCEPT ![p] = "File::create"]
        /\ UNCHANGED <<files, log>>
  /\ UNCHANGED <<dirExists, indexExists, index, inv, cur, codec, stats>>

\* fs::File::create(file_path).expect(..): creates or truncates the file
FileCreate(p) ==
  /\ pc[p] = "create"
  /\ \/ /\ dirExists
        /\ files' = (file_path(Record(p)) :> <<>>) @@ files
        /\ log' = [log EXCEPT ![p] = Append(@, Event("create", cur[p], "ok"))]
        /\ pc' = [pc EXCEPT ![p] = "write"]
        /\ UNCHANGED cause
     \/ /\ Fail(p, "panic", "File::create")
        /\ UNCHANGED <<files, log>>
  /\ UNCHANGED <<dirExists, indexExists, index, inv, cur, codec, stats>>

\* the upload placed before the append to the index
FileWrite_SkipIndex(p) ==
  /\ pc[p] = "write"
  /\ \/ /\ files' = [files EXCEPT ![file_path(Record(p))] = serialize(Record(p))]
        /\ log' = [log EXCEPT ![p] = Append(@, Event("write", cur[p], "ok"))]
        /\ pc' = [pc EXCEPT ![p] = "upload"]
        /\ UNCHANGED cause
     \/ /\ Fail(p, "panic", "to_writer_pretty")
        /\ UNCHANGED <<files, log>>
  /\ UNCHANGED <<dirExists, indexExists, index, inv, cur, codec, stats>>

\* serde_json::to_writer_pretty(file, &record).expect(..)
FileWrite(p) ==
  /\ pc[p] = "write"
  /\ \/ /\ files' = [files EXCEPT ![file_path(Record(p))] = serialize(Record(p))]
        /\ log' = [log EXCEPT ![p] = Append(@, Event("write", cur[p], "ok"))]
        /\ pc' = [pc EXCEPT ![p] = "open"]
        /\ UNCHANGED cause
     \/ /\ Fail(p, "panic", "to_writer_pretty")
        /\ UNCHANGED <<files, log>>
  /\ UNCHANGED <<dirExists, indexExists, index, inv, cur, codec, stats>>

\* OpenOptions::new().append(true).create(true).open(..).unwrap()
IndexOpen(p) ==
  /\ pc[p] = "open"
  /\ \/ /\ indexExists' = TRUE
        /\ pc' = [pc EXCEPT ![p] = "append"]
        /\ UNCHANGED cause
     \/ /\ Fail(p, "panic", "open")
        /\ UNCHANGED indexExists
  /\ UNCHANGED <<dirExists, files, index, inv, cur, log, codec, stats>>

\* the index opened with truncate(true) in the place of append(true)
AppendLine_Truncate(lines, line) == <<line>>

\* a path already in the index is not appended again
AppendLine_Dedup(lines, line) ==
  IF \E n \in 1..Len(lines) : lines[n] = line THEN lines
  ELSE Append(lines, line)

\* The file after write_all(line) on a handle opened in append mode: the
\* line goes to the end of the file, whatever was written since the open.
AppendLine(lines, line) == Append(lines, line)

\* benchmark_results_file.write_all(format!("{}\n", file_path)).unwrap()
IndexWrite(p) ==
  /\ pc[p] = "append"
  /\ \/ /\ index' = AppendLine(index, file_path(Record(p)))
        /\ log' = [log EXCEPT ![p] = Append(@, Event("index", cur[p], "ok"))]
        /\ pc' = [pc EXCEPT ![p] = "upload"]
        /\ UNCHANGED cause
     \/ /\ Fail(p, "panic", "write_all")
        /\ UNCHANGED <<index, log>>
  /\ UNCHANGED <<dirExists, files, indexExists, inv, cur, codec, stats>>

\* if let Some(upload_url) = url { .. } when url is None
SkipUpload(p) ==
  /\ pc[p] = "upload"
  /\ ~inv[p].url.some
  /\ NextRecord(p)
  /\ UNCHANGED <<dirExists, files, indexExists, index, inv, cause, log, codec,
                 stats>>

\* a missing token skips the upload in the place of aborting the call
MissingToken_Skip(p) ==
  /\ pc[p] = "upload"
  /\ inv[p].url.some
  /\ ~inv[p].token.some
  /\ NextRecord(p)
  /\ UNCHANGED <<dirExists, files, indexExists, index, inv, cause, log, codec,
                 stats>>

\* token.expect("An auth token should be provided.") when token is None
MissingToken(p) ==
  /\ pc[p] = "upload"
  /\ inv[p].url.some
  /\ ~inv[p].token.some
  /\ Fail(p, "panic", "token")
  /\ UNCHANGED <<dirExists, files, indexExists, index, inv, cur, log, codec, stats>>

\* What the server and the network can answer to the POST.
SendOutcomes == {"success", "status", "transport"}

PostsOf(p, i) ==
  Cardinality({k \in 1..Len(log[p]) : log[p][k].op = "post" /\ log[p][k].i = i})

\* a request answered with a non-success status is sent again
upload_record_Retry(p, outcome) ==
  /\ log' = [log EXCEPT ![p] = Append(@, Event("post", cur[p], outcome))]
  /\ IF outcome = "transport"
     THEN /\ Fail(p, "panic", "send")
          /\ UNCHANGED cur
     ELSE IF outcome = "status" /\ PostsOf(p, cur[p]) = 0
          THEN UNCHANGED <<pc, cur, cause>>
          ELSE /\ NextRecord(p)
               /\ UNCHANGED cause

\* upload_record: one POST; .send().expect(..) panics on a transport error,
\* a response is printed as shared or as failed.
upload_record(p, outcome) ==
  /\ log' = [log EXCEPT ![p] = Append(@, Event("post", cur[p], outcome))]
  /\ IF outcome = "transport"
     THEN /\ Fail(p, "panic", "send")
          /\ UNCHANGED cur
     ELSE /\ NextRecord(p)
          /\ UNCHANGED cause

\* if let Some(upload_url) = url { upload_record(&record, token, url) }
Upload(p) ==
  /\ pc[p] = "upload"
  /\ inv[p].url.some
  /\ inv[p].token.some
  /\ \E outcome \in SendOutcomes : upload_record(p, outcome)
  /\ UNCHANGED <<dirExists, files, indexExists, index, inv, codec, stats>>

\* ------------------------------------------------- the inputs of decode
SchemaKeys ==
  {"backend", "device", "feature", "gitHash", "burnVersion", "max", "mean",
   "median", "min", "name", "numSamples", "options", "rawDurations",
   "systemInfo", "shapes", "timestamp", "variance"}
StatKeys == {"max", "mean", "median", "min", "variance"}
StringKeys == {"backend", "device", "feature", "gitHash", "burnVersion", "name"}

Keys(m) == {m[k].key : k \in 1..Len(m)}
Get(m, key) == m[CHOOSE k \in 1..Len(m) : m[k].key = key].val
SetKey(m, key, v) ==
  [k \in 1..Len(m) |-> IF m[k].key = key THEN Entry(key, v) ELSE m[k]]
InsertAt(m, k, e) == SubSeq(m, 1, k - 1) \o <<e>> \o SubSeq(m, k, Len(m))
Reverse(m) == [k \in 1..Len(m) |-> m[Len(m) + 1 - k]]
Rotate(m, n) == SubSeq(m, n + 1, Len(m)) \o SubSeq(m, 1, n)
Swap(m, i, j) ==
  [k \in 1..Len(m) |-> IF k = i THEN m[j] ELSE IF k = j THEN m[i] ELSE m[k]]

\* The shape the schema table gives each key.
ShapeOk(e) ==
  CASE e.key \in StringKeys -> IsString(e.val)
    [] e.key \in StatKeys \cup {"numSamples", "timestamp"} -> IsUnsigned(e.val)
    [] e.key = "options" -> IsOptString(e.val)
    [] e.key = "rawDurations" -> IsDurations(e.val)
    [] e.key = "shapes" -> IsDims(e.val)
    [] e.key = "systemInfo" -> IsInfo(e.val)
    [] OTHER -> FALSE

\* {secs, nanos} pairs as an encoder writes them: nanos within the second
Normalised(ds) == \A k \in 1..Len(ds) : ds[k].nanos < NANOS_PER_SEC

\* A well-formed flat mapping: every key of the table once, rightly shaped.
WellFormed(m) ==
  /\ Len(m) = Cardinality(SchemaKeys)
  /\ Keys(m) = SchemaKeys
  /\ \A k \in 1..Len(m) : ShapeOk(m[k])
  /\ Normalised(Get(m, "rawDurations").durs)

HasUnknownKey(m) == \E k \in 1..Len(m) : m[k].key \notin SchemaKeys
HasWrongShape(m) ==
  \E k \in 1..Len(m) : m[k].key \in SchemaKeys /\ ~ShapeOk(m[k])

\* Statistics as a file holds them, in microseconds (8858 is the max of the
\* sample of tests::get_benchmark_result).
MicrosPool == {0, 8858}

FlatBases ==
  {MkRecord("candle", "unary", 1710208069, "System", ds, options,
            <<<<32, 512, 1024>>>>, Info1) :
     ds \in {<<Dur(0, 8858583)>>, <<Dur(1, 999999999), Dur(0, 1500)>>},
     options \in {None, Some("o")}}

RECURSIVE SetStats(_, _, _)
SetStats(m, st, keys) ==
  IF keys = {} THEN m
  ELSE LET key == CHOOSE x \in keys : TRUE
       IN  SetStats(SetKey(m, key, JNum(st[key])), st, keys \ {key})

\* Files as a writer of the schema may have left them: the statistics and
\* numSamples are whatever that writer stored.
InOrder(m, order) == IF order = "reversed" THEN Reverse(m) ELSE m

WellFormedFlats ==
  {InOrder(SetStats(SetKey(serialize(r), "numSamples", JNum(n)), st, StatKeys),
           order) :
     r \in FlatBases, n \in 0..(MaxSamples + 1), st \in [StatKeys -> MicrosPool],
     order \in {"written", "reversed"}}

SampleFlats == {serialize(r) : r \in FlatBases}

\* A value of a shape no key of the table takes / of another key's shape.
WrongValue(key) == IF key \in StringKeys THEN JNum(7) ELSE JStr("seven")

\* "operation" is a key the format comment of save_records lists.
MalformedFlats ==
  {InsertAt(m, k, Entry("operation", JStr("op"))) :
     m \in SampleFlats, k \in {1, 9, 18}}
  \cup {SetKey(m, key, WrongValue(key)) : m \in SampleFlats, key \in SchemaKeys}
  \cup {InsertAt(SetKey(m, key, WrongValue(key)), k, Entry("operation", JStr("op"))) :
     m \in SampleFlats, key \in {"device", "variance"}, k \in {1, 9, 18}}

ReorderedFlats ==
  {Reverse(m) : m \in SampleFlats}
  \cup {Rotate(m, n) : m \in SampleFlats, n \in {3, 11}}

\* a hand-written file whose nanos field holds a second and a half
UnnormalisedFlats ==
  {SetKey(m, "rawDurations", JDurs(<<Dur(0, 1500000000)>>)) : m \in SampleFlats}

\* Mappings that lack keys of the table: each key alone, the two keys the
\* sample of tests::get_benchmark_result lacks, and every key.
Remove(m, keys) == SelectSeq(m, LAMBDA e : e.key \notin keys)

OmittedKeySets ==
  {{key} : key \in SchemaKeys} \cup {{"burnVersion", "systemInfo"}, SchemaKeys}

OmittedFlats == {Remove(m, keys) : m \in SampleFlats, keys \in OmittedKeySets}

FlatInputs ==
  WellFormedFlats \cup MalformedFlats \cup ReorderedFlats \cup UnnormalisedFlats
    \cup OmittedFlats

\* ---------------------------------------------------- a caller of the codec
\* The caller starts from a record (mode "record") or from a mapping read
\* from a file (mode "flat") and calls serialize and deserialize in turn.
MaxCalls == 3

IdleCodec ==
  [mode |-> "none", rec0 |-> DefaultRecord, flat0 |-> <<>>,
   rec |-> DefaultRecord, flat |-> <<>>, calls |-> <<>>, status |-> "ok"]

Last(q) == q[Len(q)]

HoldsRecord ==
  \/ codec.mode = "record" /\ codec.calls = <<>>
  \/ codec.calls # <<>> /\ Last(codec.calls) = "de"
HoldsFlat ==
  \/ codec.mode = "flat" /\ codec.calls = <<>>
  \/ codec.calls # <<>> /\ Last(codec.calls) = "ser"

\* serde_json::to_value(&record)
Serialize ==
  /\ codec.status = "ok"
  /\ HoldsRecord
  /\ Len(codec.calls) < MaxCalls
  /\ codec' = [codec EXCEPT !.flat = serialize(codec.rec),
                            !.calls = Append(@, "ser")]
  /\ UNCHANGED <<fsvars, inv, pc, cur, cause, log, stats>>

\* serde_json::from_str::<BenchmarkRecord>(..): Ok(record), Err(e), or a panic
Deserialize ==
  /\ codec.status = "ok"
  /\ HoldsFlat
  /\ Len(codec.calls) < MaxCalls
  /\ LET res == visit_map(codec.flat)
     IN  codec' = [codec EXCEPT !.rec = res.br,
                                !.status = res.kind,
                                !.calls = Append(@, "de")]
  /\ UNCHANGED <<fsvars, inv, pc, cur, cause, log, stats>>

\* ------------------------------------------------ a caller of the statistics
\* Samples for the statistics: a nanosecond, just under two seconds, whole
\* seconds, and the 18 s + 5 ns of tests::test_min_max_median_durations_odd.
StatPool ==
  {Dur(0, 1), Dur(1, 999999999), Dur(10, 0), Dur(18, 5), Dur(20, 0), Dur(50, 0)}

MaxStatSamples == 3

Secs(q) == [k \in 1..Len(q) |-> Dur(q[k], 0)]

\* the sample sequences of the unit tests
TestSeqs ==
  {Secs(<<10, 20, 30, 40, 50>>),
   <<Dur(18, 5), Dur(20, 0), Dur(30, 0), Dur(40, 0)>>,
   Secs(<<10, 20, 30, 40>>)}

\* BenchmarkDurations.durations: any Vec, the empty one included
StatSeqs == SeqsUpTo(StatPool, MaxStatSamples) \cup TestSeqs

IdleStats ==
  [op |-> "none", durations0 |-> <<>>, durations |-> <<>>, arg |-> ZeroDur,
   kind |-> "ok", out |-> NoStats]

Done(op, arg, res) ==
  [stats EXCEPT !.op = op, !.arg = arg, !.kind = res.kind, !.out = res.out,
                !.durations = res.durations]

\* BenchmarkComputations::new(&durations)
New ==
  /\ stats.op = "none"
  /\ stats' = Done("new", ZeroDur, call_new(stats.durations))
  /\ UNCHANGED <<fsvars, inv, pc, cur, cause, log, codec>>

\* durations.min_max_median_durations()
MinMaxMedian ==
  /\ stats.op = "none"
  /\ stats' = Done("min_max_median_durations", ZeroDur,
                   call_min_max_median_durations(stats.durations))
  /\ UNCHANGED <<fsvars, inv, pc, cur, cause, log, codec>>

\* durations.mean_duration()
Mean ==
  /\ stats.op = "none"
  /\ stats' = Done("mean_duration", ZeroDur, call_mean_duration(stats.durations))
  /\ UNCHANGED <<fsvars, inv, pc, cur, cause, log, codec>>

\* durations.variance_duration(mean) with the mean of the same samples
\* (any duration when there is no sample to take a mean of)
Variance ==
  /\ stats.op = "none"
  /\ \E mean \in IF stats.durations = <<>> THEN StatPool
                  ELSE {mean_duration(stats.durations)} :
       stats' = Done("variance_duration", mean,
                     call_variance_duration(stats.durations, mean))
  /\ UNCHANGED <<fsvars, inv, pc, cur, cause, log, codec>>

\* ------------------------------------------------------ the specifications
NoInvocation == [records |-> <<>>, url |-> None, token |-> None]

InitFs ==
  /\ dirExists = FALSE
  /\ files = <<>>
  /\ indexExists = FALSE
  /\ index = <<>>

InitProcs ==
  /\ pc = [p \in Procs |-> "start"]
  /\ cur = [p \in Procs |-> 1]
  /\ cause = [p \in Procs |-> ""]
  /\ log = [p \in Procs |-> <<>>]

RECURSIVE TotalRecords(_, _)
TotalRecords(f, ps) ==
  IF ps = {} THEN 0
  ELSE LET p == CHOOSE x \in ps : TRUE
       IN  Len(f[p].records) + TotalRecords(f, ps \ {p})

\* save_records, invoked twice on a cache directory that does not exist yet
Init ==
  /\ InitFs
  /\ InitProcs
  /\ inv \in [Procs -> Invocations]
  /\ TotalRecords(inv, Procs) <= MaxRecords
  /\ codec = IdleCodec
  /\ stats = IdleStats

Step(p) ==
  \/ CreateDir(p)
  \/ FileCreate(p)
  \/ FileWrite(p)
  \/ IndexOpen(p)
  \/ IndexWrite(p)
  \/ SkipUpload(p)
  \/ MissingToken(p)
  \/ Upload(p)

Next == \E p \in Procs : Step(p)

Spec == Init /\ [][Next]_vars

\* the codec, called on a record or on the mapping of a file
CodecInit ==
  /\ InitFs
  /\ InitProcs
  /\ inv = [p \in Procs |-> NoInvocation]
  /\ \/ \E r \in CodecRecords :
          codec = [IdleCodec EXCEPT !.mode = "record", !.rec0 = r, !.rec = r]
     \/ \E m \in FlatInputs :
          codec = [IdleCodec EXCEPT !.mode = "flat", !.flat0 = m, !.flat = m]

  /\ stats = IdleStats

CodecNext == Serialize \/ Deserialize

CodecSpec == CodecInit /\ [][CodecNext]_vars

\* the statistics, called on a sequence of samples
StatsInit ==
  /\ InitFs
  /\ InitProcs
  /\ inv = [p \in Procs |-> NoInvocation]
  /\ codec = IdleCodec
  /\ \E ds \in StatSeqs :
       stats = [IdleStats EXCEPT !.durations0 = ds, !.durations = ds]

StatsNext == New \/ MinMaxMedian \/ Mean \/ Variance

StatsSpec == StatsInit /\ [][StatsNext]_vars

\* ------------------------------------------------ what the log of p holds
Positions(p, op) == {k \in 1..Len(log[p]) : log[p][k].op = op}
PositionsOf(p, op, i) == {k \in Positions(p, op) : log[p][k].i = i}
FailedPosts(p) == {k \in Positions(p, "post") : log[p][k].outcome # "success"}
Records(p) == inv[p].records
Alone(p) == \A q \in Procs \ {p} : pc[q] = "start"
IsPrefix(a, b) == Len(a) <= Len(b) /\ SubSeq(b, 1, Len(a)) = a
PostStep(p) ==
  /\ Len(log'[p]) = Len(log[p]) + 1
  /\ log'[p][Len(log'[p])].op = "post"

\* ------------------------------------------------------------------- C1
\* C1: an upload failure (a non-success status or a transport failure) for
\* one record never aborts save_records: the call goes on to the later
\* records and returns Ok, so it never ends in the panic of the send.
C1_UploadFailureNeverAborts ==
  \A p \in Procs :
    FailedPosts(p) # {} => ~(pc[p] = "panic" /\ cause[p] = "send")

\* ------------------------------------------------------------------- C2
\* C2: the upload of a record is attempted only after the cache directory
\* exists, the record's file has been written and its path appended to the
\* index, in that order; the step that uploads, whatever its outcome,
\* leaves every record file and the index as they were.
C2_LocalBeforeUpload ==
  \A p \in Procs : \A k \in Positions(p, "post") :
    /\ dirExists
    /\ \E a \in PositionsOf(p, "write", log[p][k].i) :
         \E b \in PositionsOf(p, "index", log[p][k].i) : a < b /\ b < k
    /\ \E n \in 1..Len(index) : index[n] = file_path(Records(p)[log[p][k].i])
    /\ file_path(Records(p)[log[p][k].i]) \in DOMAIN files

C2_UploadAfterLocal ==
  /\ []C2_LocalBeforeUpload
  /\ [][\A p \in Procs : PostStep(p) =>
          files' = files /\ index' = index /\ indexExists' = indexExists]_vars

C2_Witness ==
  \E p \in Procs :
    /\ Len(Records(p)) = 2
    /\ pc[p] = "ok"
    /\ \E k \in FailedPosts(p) : log[p][k].i = 1
    /\ PositionsOf(p, "post", 2) # {}

\* ------------------------------------------------------------------- C3
FilePaths(p) == {file_path(Records(p)[k]) : k \in 1..Len(Records(p))}
LastWith(p, path) ==
  Records(p)[CHOOSE k \in 1..Len(Records(p)) :
               /\ file_path(Records(p)[k]) = path
               /\ \A j \in (k + 1)..Len(Records(p)) :
                    file_path(Records(p)[j]) # path]

\* C3 as the spec states it: a save_records call on N records that starts
\* with an empty cache directory and meets no filesystem error ends with
\* exactly N record files and an index of exactly N lines, each the path of
\* a written file.
C3_ExactlyNFiles ==
  \A p \in Procs :
    (pc[p] = "ok" /\ Alone(p)) =>
      /\ Cardinality(DOMAIN files) = Len(Records(p))
      /\ Len(index) = Len(Records(p))
      /\ \A n \in 1..Len(index) : index[n] \in DOMAIN files

\* C3 amended: such a call that returns Ok ends with an index of exactly N
\* lines, the k-th being the path of the k-th record's file, and with one
\* record file per distinct (name, timestamp) among the records, holding
\* the encoding of the last record of that name and timestamp.
C3_OneFilePerName ==
  \A p \in Procs :
    (pc[p] = "ok" /\ Alone(p)) =>
      /\ DOMAIN files = FilePaths(p)
      /\ Cardinality(DOMAIN files) = Cardinality(FilePaths(p))
      /\ Len(index) = Len(Records(p))
      /\ \A n \in 1..Len(index) :
           index[n] = file_path(Records(p)[n]) /\ index[n] \in DOMAIN files
      /\ \A path \in DOMAIN files : files[path] = serialize(LastWith(p, path))

C3_Witness ==
  \E p \in Procs :
    /\ pc[p] = "ok" /\ Alone(p)
    /\ Records(p) = <<RecA, RecB>>
    /\ Cardinality(DOMAIN files) = 1
    /\ Len(index) = 2

\* ------------------------------------------------------------------- C4
IndexLines(path) == {n \in 1..Len(index) : index[n] = path}
IndexEvents(path) ==
  UNION {{<<p, k>> : k \in {n \in Positions(p, "index") :
                              file_path(Records(p)[log[p][n].i]) = path}} :
         p \in Procs}
AllPaths == {file_path(r) : r \in SavedRecords}

\* C4: the index file is append-only under any interleaving of save_records
\* invocations: a step never removes, changes or reorders a line already in
\* the file nor removes the file, and the file holds one whole line per
\* record whose path an invocation has appended.
C4_IndexAppendOnly ==
  /\ [][IsPrefix(index, index') /\ (indexExists => indexExists')]_vars
  /\ [](\A path \in AllPaths :
          Cardinality(IndexLines(path)) = Cardinality(IndexEvents(path)))

C4_Witness ==
  /\ \A p \in Procs : pc[p] = "ok" /\ Len(Records(p)) = 1
  /\ Len(index) = 2
  /\ index[1] = file_path(Records("p2")[1])
  /\ index[2] = file_path(Records("p1")[1])
  /\ index[1] # index[2]

\* ------------------------------------------------------------------- C5
FsFailures == {"create_dir_all", "File::create", "to_writer_pretty"}

C5_AbortedAt(p) ==
  /\ pc[p] \in {"err", "panic"}
  /\ cause[p] = "create_dir_all" =>
       /\ pc[p] = "err" /\ log[p] = <<>>
       /\ Alone(p) => DOMAIN files = {} /\ index = <<>> /\ ~dirExists
  /\ \A k \in 1..Len(log[p]) :
       /\ log[p][k].i <= cur[p]
       /\ log[p][k].i = cur[p] => log[p][k].op \notin {"index", "post"}

\* C5: a filesystem error while creating the cache directory or creating or
\* writing a record file aborts the whole call and is surfaced (Err or a
\* panic, never Ok): the failing record gets no index line and no upload,
\* no later record is written, indexed or uploaded, a failure to create the
\* directory leaves nothing done, and an ended call does nothing more.
C5_FsErrorAborts ==
  /\ [](\A p \in Procs : cause[p] \in FsFailures => C5_AbortedAt(p))
  /\ [][\A p \in Procs : Ended(p) =>
          pc'[p] = pc[p] /\ log'[p] = log[p] /\ cur'[p] = cur[p]]_vars

C5_Witness ==
  \E p \in Procs :
    /\ cause[p] = "to_writer_pretty"
    /\ cur[p] = 2
    /\ inv[p].url.some /\ inv[p].token.some
    /\ PositionsOf(p, "post", 1) # {}

\* ------------------------------------------------------------------- C6
\* C6: save_records sends one POST per record when a url is given and none
\* when it is absent: a call sends no more requests than it has appended
\* index lines and written files, never sends twice for one record (a
\* failed request is not retried), and a call that returns Ok has sent
\* exactly one request for each of its records.
C6_OnePostPerRecord ==
  \A p \in Procs :
    /\ ~inv[p].url.some => Positions(p, "post") = {}
    /\ Cardinality(Positions(p, "post")) <= Cardinality(Positions(p, "index"))
    /\ Cardinality(Positions(p, "index")) <= Cardinality(Positions(p, "write"))
    /\ \A i \in 1..Len(Records(p)) : Cardinality(PositionsOf(p, "post", i)) <= 1
    /\ (pc[p] = "ok" /\ inv[p].url.some) =>
         \A i \in 1..Len(Records(p)) : Cardinality(PositionsOf(p, "post", i)) = 1

C6_Witness ==
  \E p \in Procs :
    /\ pc[p] = "ok"
    /\ Len(Records(p)) = 2
    /\ Cardinality(FailedPosts(p)) = 2

\* ------------------------------------------------------------------- C7
Called(mode, calls) == codec.mode = mode /\ codec.calls = calls

\* C7 as the spec states it: decoding the encoding of a valid record gives
\* a record equal to the original in every field of the model.
C7_RoundTripRecord ==
  Called("record", <<"ser", "de">>) =>
    codec.status = "ok" /\ codec.rec = codec.rec0

\* a duration cut to whole microseconds
TruncMicros(d) == Dur(d.secs, d.nanos - (d.nanos % NANOS_PER_MICRO))

\* C7 amended: decoding the encoding of a valid record gives a record equal
\* to the original in every field but raw.timing_method, which is not
\* encoded and decodes to System, and the five computed statistics, each of
\* which decodes to the original cut to whole microseconds.
C7_RoundTripTruncated ==
  Called("record", <<"ser", "de">>) =>
    /\ codec.status = "ok"
    /\ codec.rec =
         [codec.rec0 EXCEPT
            !.results.raw.timing_method = "System",
            !.results.computed =
               [f \in DOMAIN codec.rec0.results.computed |->
                  TruncMicros(codec.rec0.results.computed[f])]]

C7_Witness ==
  /\ Called("record", <<"ser", "de">>)
  /\ codec.rec0.results.raw.timing_method = "Device"
  /\ codec.rec0.results.computed.mean.nanos % NANOS_PER_MICRO # 0
  /\ Len(codec.rec0.results.raw.durations) = 2
  /\ codec.rec.results.raw.durations = codec.rec0.results.raw.durations
  /\ codec.rec.results.computed.mean # codec.rec0.results.computed.mean

C9_MalformedIsError ==
  (/\ Called("flat", <<"de">>)
   /\ HasUnknownKey(codec.flat0) \/ HasWrongShape(codec.flat0)) =>
    codec.status = "err"

\* ------------------------------------------------------------------ C10
Reorderings(m) ==
  {m, Reverse(m)}
  \cup {Rotate(m, n) : n \in 1..(Len(m) - 1)}
  \cup {Swap(m, i, i + 1) : i \in 1..(Len(m) - 1)}

\* the mappings that differ from m only in key order or in numSamples
Variants(m) ==
  {SetKey(o, "numSamples", JNum(n)) :
     o \in Reorderings(m), n \in 0..(MaxSamples + 1)}

\* C10: the decoded record depends neither on the order of the keys nor on
\* numSamples: every mapping that differs from a well-formed one only in
\* key order or in numSamples decodes to the same record, whose
\* raw.durations has as many entries as rawDurations.
C10_OrderAndNumSamples ==
  (Called("flat", <<"de">>) /\ WellFormed(codec.flat0)) =>
    /\ codec.status = "ok"
    /\ \A v \in Variants(codec.flat0) : visit_map(v) = Ok(codec.rec)
    /\ Len(codec.rec.results.raw.durations) =
         Len(Get(codec.flat0, "rawDurations").durs)

C10_Witness ==
  /\ Called("flat", <<"de">>)
  /\ WellFormed(codec.flat0)
  /\ codec.status = "ok"
  /\ codec.flat0[1].key = "variance"
  /\ Get(codec.flat0, "numSamples").num = 0
  /\ Len(codec.rec.results.raw.durations) = 2

\* ------------------------------------------------------------------ C11
Encoded == codec.calls # <<>> /\ Last(codec.calls) = "ser"

\* v is d in whole microseconds: the nanoseconds divided by 1000, truncated
WholeMicros(v, d) ==
  /\ v.shape = "num"
  /\ v.num \div 1000000 = d.secs
  /\ (v.num % 1000000) * 1000 <= d.nanos
  /\ d.nanos < (v.num % 1000000) * 1000 + 1000

Ran(op) == stats.op = op /\ stats.durations0 # <<>>

\* C12: for every non-empty sequence of samples the Computations built by
\* BenchmarkComputations::new satisfy min <= median <= max and
\* min <= mean <= max.
C12_StatisticsOrdered ==
  Ran("new") =>
    /\ stats.kind = "ok"
    /\ DurLeq(stats.out.min, stats.out.median)
    /\ DurLeq(stats.out.median, stats.out.max)
    /\ DurLeq(stats.out.min, stats.out.mean)
    /\ DurLeq(stats.out.mean, stats.out.max)

C12_Witness ==
  /\ Ran("new")
  /\ Len(stats.durations0) = 3
  /\ stats.out.min # stats.out.median
  /\ stats.out.median # stats.out.max
  /\ stats.out.mean \notin {stats.out.min, stats.out.median, stats.out.max}

\* ------------------------------------------------------------------ C13
Below(ds, d) == {k \in 1..Len(ds) : ds[k] # d /\ DurLeq(ds[k], d)}
UpTo(ds, d) == {k \in 1..Len(ds) : DurLeq(ds[k], d)}
Elems(ds) == {ds[k] : k \in 1..Len(ds)}

\* C13: min_max_median_durations returns the smallest sample as min, the
\* largest as max and, as median, the element at index floor(n/2) (from 0)
\* of the samples in ascending order: the upper of the two middle elements
\* for an even n, never a value between them; self.durations is unchanged.
C13_MinMaxMedian ==
  Ran("min_max_median_durations") =>
    LET ds == stats.durations0
        n  == Len(ds)
    IN  /\ stats.kind = "ok"
        /\ stats.out.min \in Elems(ds)
        /\ \A k \in 1..n : DurLeq(stats.out.min, ds[k])
        /\ stats.out.max \in Elems(ds)
        /\ \A k \in 1..n : DurLeq(ds[k], stats.out.max)
        /\ stats.out.median \in Elems(ds)
        /\ Cardinality(Below(ds, stats.out.median)) <= n \div 2
        /\ Cardinality(UpTo(ds, stats.out.median)) > n \div 2
        /\ stats.durations = ds
        /\ ds = Secs(<<10, 20, 30, 40, 50>>) =>
             /\ stats.out.min = Dur(10, 0)
             /\ stats.out.max = Dur(50, 0)
             /\ stats.out.median = Dur(30, 0)
        /\ ds = <<Dur(18, 5), Dur(20, 0), Dur(30, 0), Dur(40, 0)>> =>
             /\ stats.out.min = Dur(18, 5)
             /\ stats.out.max = Dur(40, 0)
             /\ stats.out.median = Dur(30, 0)

C13_Witness ==
  /\ Ran("min_max_median_durations")
  /\ stats.durations0 = <<Dur(50, 0), Dur(0, 1)>>
  /\ stats.durations = stats.durations0
  /\ stats.out.median = Dur(50, 0)
  /\ stats.out.min = Dur(0, 1)

\* ------------------------------------------------------------------ C14
Times(d, n) == DurSum([k \in 1..n |-> d])

WholeSeconds(ds) == \A k \in 1..Len(ds) : ds[k].nanos = 0

RECURSIVE SumSecs(_)
SumSecs(ds) == IF ds = <<>> THEN 0 ELSE Head(ds).secs + SumSecs(Tail(ds))

RECURSIVE SumSquares(_)
SumSquares(ds) ==
  IF ds = <<>> THEN 0 ELSE Head(ds).secs * Head(ds).secs + SumSquares(Tail(ds))

\* sum((s - m)^2) / n = (n * sum(s^2) - sum(s)^2) / n^2, in seconds
PopulationVariance(ds) ==
  LET n == Len(ds)
  IN  DurDiv(Dur(n * SumSquares(ds) - SumSecs(ds) * SumSecs(ds), 0), n * n)

\* C15: for a non-empty sequence of n whole-second samples and its mean,
\* variance_duration returns the population variance sum((s - mean)^2) / n,
\* that number of squared seconds held as a duration of as many seconds:
\* exactly when the mean is a whole number of seconds, and to the
\* nanosecond of the truncated mean and of the stored squares otherwise;
\* 10 s .. 50 s give 200 s.
C15_PopulationVariance ==
  (Ran("variance_duration") /\ WholeSeconds(stats.durations0)) =>
    LET ds == stats.durations0
    IN  /\ stats.kind = "ok"
        /\ stats.arg = mean_duration(ds)
        /\ stats.arg.nanos = 0 => stats.out.variance = PopulationVariance(ds)
        /\ DurLeq(DurAbsDiff(stats.out.variance, PopulationVariance(ds)), Dur(0, 1))
        /\ ds = Secs(<<10, 20, 30, 40, 50>>) => stats.out.variance = Dur(200, 0)

C15_Witness ==
  /\ Ran("variance_duration")
  /\ stats.durations0 = <<Dur(10, 0), Dur(20, 0), Dur(50, 0)>>
  /\ stats.kind = "ok"
  /\ stats.out.variance.secs = 288

\* ------------------------------------------------------------------ C16
\* C16: on an empty sequence of samples BenchmarkComputations::new,
\* mean_duration, min_max_median_durations and variance_duration each end
\* in a panic and return no value.
C16_EmptyPanics ==
  (stats.op # "none" /\ stats.durations0 = <<>>) =>
    /\ stats.kind = "panic"
    /\ stats.out = NoStats

C16_Witness ==
  /\ stats.durations0 = <<>>
  /\ stats.op = "new"
  /\ stats.kind = "panic"

\* ------------------------------------------------------------------ C17
UrlWithoutToken(p) == inv[p].url.some /\ ~inv[p].token.some

LocalFailures ==
  {"create_dir_all", "File::create", "to_writer_pretty", "open", "write_all"}

\* C17: save_records called with a url and no token panics in the first
\* iteration of the loop, once the first record's file is written and its
\* index line appended (unless a filesystem call failed before): no request
\* is sent, no later record is created, written or indexed and Ok is never
\* returned; with no record the call ends without reading the token.
C17_UrlWithoutTokenAborts ==
  \A p \in Procs :
    UrlWithoutToken(p) =>
      /\ Positions(p, "post") = {}
      /\ cur[p] = 1
      /\ \A k \in 1..Len(log[p]) : log[p][k].i = 1
      /\ Records(p) # <<>> =>
           /\ pc[p] # "ok"
           /\ Ended(p) => pc[p] = "panic" \/ cause[p] = "create_dir_all"
           /\ (Ended(p) /\ cause[p] \notin LocalFailures) => cause[p] = "token"
           /\ cause[p] = "token" =>
                /\ pc[p] = "panic"
                /\ log[p] = <<Event("create", 1, "ok"), Event("write", 1, "ok"),
                              Event("index", 1, "ok")>>
                /\ Alone(p) =>
                     /\ DOMAIN files = {file_path(Records(p)[1])}
                     /\ files[file_path(Records(p)[1])] = serialize(Records(p)[1])
                     /\ index = <<file_path(Records(p)[1])>>
      /\ Records(p) = <<>> =>
           /\ cause[p] # "token"
           /\ pc[p] # "panic"
           /\ log[p] = <<>>
           /\ (Ended(p) /\ cause[p] # "create_dir_all") => pc[p] = "ok"

C17_Witness ==
  \E p, q \in Procs :
    /\ UrlWithoutToken(p) /\ UrlWithoutToken(q)
    /\ Len(Records(p)) = 2
    /\ cause[p] = "token" /\ pc[p] = "panic"
    /\ Len(index) = 1
    /\ Records(q) = <<>>
    /\ pc[q] = "ok"

\* ------------------------------------------------------------------ C18
\* the field a key of the table is decoded into holds its default
AtDefault(br, key) ==
  CASE key = "backend" -> br.backend = ""
    [] key = "device" -> br.device = ""
    [] key = "feature" -> br.feature = ""
    [] key = "burnVersion" -> br.burn_version = ""
    [] key = "gitHash" -> br.results.git_hash = ""
    [] key = "name" -> br.results.name = ""
    [] key \in StatKeys -> br.results.computed[key] = Dur(0, 0)
    [] key = "numSamples" -> TRUE
    [] key = "options" -> br.results.options = None
    [] key = "rawDurations" -> br.results.raw.durations = <<>>
    [] key = "shapes" -> br.results.shapes = <<>>
    [] key = "systemInfo" -> br.system_info = DefaultInfo
    [] key = "timestamp" -> br.results.timestamp = 0

\* C18: decoding a mapping that lacks keys of the schema table (its entries
\* being known keys of the right shape) succeeds, and the field of every
\* absent key is left at its default: empty string, empty sequence, zero
\* duration, zero timestamp, None options; the timing method is System.
C18_AbsentKeysDefault ==
  (/\ Called("flat", <<"de">>)
   /\ ~HasUnknownKey(codec.flat0)
   /\ ~HasWrongShape(codec.flat0)) =>
    /\ codec.status = "ok"
    /\ \A key \in SchemaKeys \ Keys(codec.flat0) : AtDefault(codec.rec, key)
    /\ codec.rec.results.raw.timing_method = "System"

C18_Witness ==
  /\ Called("flat", <<"de">>)
  /\ SchemaKeys \ Keys(codec.flat0) = {"burnVersion", "systemInfo"}
  /\ codec.status = "ok"
  /\ codec.rec.burn_version = ""
  /\ codec.rec.system_info = DefaultInfo
  /\ codec.rec.backend = "candle"
  /\ codec.rec.results.computed.max = Dur(0, 8858000)

=============================================================================
